---- MODULE Spec2Model ----
(***************************************************************************)
(* Model of main.py: the tool-calling orchestrator (run_conversation), the *)
(* dispatcher (_call_tool) and the four tools (get_weather, convert_units, *)
(* convert_currency, plan_trip).                                           *)
(*                                                                         *)
(* Text is a sequence of one-character strings, so that str.strip(),       *)
(* str.lower() and str.upper() are computed rather than assumed.           *)
(* A Python value is a record [t, n, s, l] (type tag, number, text, list). *)
(* A float is a rational <<numerator, denominator>>.                       *)
(***************************************************************************)
EXTENDS Integers, Sequences, FiniteSets, TLC

VARIABLES
    t_name,      \* _call_tool: the requested tool name
    t_args,      \* _call_tool: the parsed argument object
    t_out,       \* _call_tool: the outcome (returned payload or raised exception)
    t_pc,        \* "call" before the dispatcher ran, "done" after
    t_resp,      \* _call_tool: the collaborator response the tool received
    messages,    \* run_conversation: the message log
    hops,        \* run_conversation: iterations of the for loop entered so far
    pc,          \* run_conversation: position in the loop
    response,    \* run_conversation: the model message being handled
    requests,    \* number of client.chat.completions.create calls made
    dispatches,  \* number of _call_tool calls made
    result,      \* the text run_conversation returned
    raised       \* the exception that left run_conversation ("" when none)

tool_vars == <<t_name, t_args, t_out, t_pc, t_resp>>
conv_vars == <<messages, hops, pc, response, requests, dispatches, result, raised>>
vars == <<t_name, t_args, t_out, t_pc, t_resp,
          messages, hops, pc, response, requests, dispatches, result, raised>>

(***************************************************************************)
(* Bounds of the model.                                                    *)
(***************************************************************************)
MaxPad == 1        \* whitespace characters added on each side of a spelling
MaxValue == 2      \* numeric inputs range over -MaxValue..MaxValue (and 100)
MaxInterests == 2  \* length of the interests lists tried
MaxOver == 1       \* durations tried reach 30 + MaxOver and -MaxOver

(***************************************************************************)
(* Text.                                                                   *)
(***************************************************************************)
UpperLetters ==
    <<"A","B","C","D","E","F","G","H","I","J","K","L","M",
      "N","O","P","Q","R","S","T","U","V","W","X","Y","Z">>
LowerLetters ==
    <<"a","b","c","d","e","f","g","h","i","j","k","l","m",
      "n","o","p","q","r","s","t","u","v","w","x","y","z">>
Digits == <<"0","1","2","3","4","5","6","7","8","9">>
Whitespace == {" ", "\t"}

IndexOf(c, seq) == CHOOSE i \in 1..Len(seq) : seq[i] = c
Occurs(c, seq) == \E i \in 1..Len(seq) : seq[i] = c

LowerChar(c) == IF Occurs(c, UpperLetters) THEN LowerLetters[IndexOf(c, UpperLetters)] ELSE c
UpperChar(c) == IF Occurs(c, LowerLetters) THEN UpperLetters[IndexOf(c, LowerLetters)] ELSE c

lower(s) == [i \in 1..Len(s) |-> LowerChar(s[i])]
upper(s) == [i \in 1..Len(s) |-> UpperChar(s[i])]

RECURSIVE lstrip(_)
lstrip(s) == IF s # <<>> /\ Head(s) \in Whitespace THEN lstrip(Tail(s)) ELSE s

RECURSIVE rstrip(_)
rstrip(s) ==
    IF s # <<>> /\ s[Len(s)] \in Whitespace THEN rstrip(SubSeq(s, 1, Len(s) - 1)) ELSE s

strip(s) == rstrip(lstrip(s))

(***************************************************************************)
(* Python values, as json.loads produces them.                             *)
(***************************************************************************)
PyNone == [t |-> "none", n |-> 0, s |-> <<>>, l |-> <<>>]
PyInt(n) == [t |-> "int", n |-> n, s |-> <<>>, l |-> <<>>]
PyBool(b) == [t |-> "bool", n |-> IF b THEN 1 ELSE 0, s |-> <<>>, l |-> <<>>]
PyStr(s) == [t |-> "str", n |-> 0, s |-> s, l |-> <<>>]
PyList(l) == [t |-> "list", n |-> 0, s |-> <<>>, l |-> l]

IsStr(v) == v.t = "str"

\* bool(v)
Truthy(v) ==
    CASE v.t = "none" -> FALSE
      [] v.t = "int" -> v.n # 0
      [] v.t = "bool" -> v.n # 0
      [] v.t = "str" -> v.s # <<>>
      [] v.t = "list" -> v.l # <<>>

\* (v or "")
OrEmpty(v) == IF Truthy(v) THEN v ELSE PyStr(<<>>)

\* A decimal numeral: optional surrounding whitespace, optional sign, digits.
IsNumeral(s) ==
    LET body == strip(s)
        digits == IF body # <<>> /\ Head(body) \in {"-", "+"} THEN Tail(body) ELSE body
    IN  digits # <<>> /\ \A i \in 1..Len(digits) : Occurs(digits[i], Digits)

RECURSIVE DigitsValue(_)
DigitsValue(d) ==
    IF d = <<>> THEN 0
    ELSE 10 * DigitsValue(SubSeq(d, 1, Len(d) - 1)) + (IndexOf(d[Len(d)], Digits) - 1)

NumeralValue(s) ==
    LET body == strip(s)
    IN  IF Head(body) = "-" THEN 0 - DigitsValue(Tail(body))
        ELSE IF Head(body) = "+" THEN DigitsValue(Tail(body))
        ELSE DigitsValue(body)

\* float(v) and int(v): ok is FALSE where Python raises TypeError or ValueError.
ToNumber(v) ==
    CASE v.t \in {"int", "bool"} -> [ok |-> TRUE, val |-> v.n]
      [] v.t = "str" ->
            IF IsNumeral(v.s) THEN [ok |-> TRUE, val |-> NumeralValue(v.s)]
            ELSE [ok |-> FALSE, val |-> 0]
      [] OTHER -> [ok |-> FALSE, val |-> 0]

\* Rationals stand for floats.
Rat(n) == <<n, 1>>
RatMul(a, b) == <<a[1] * b[1], a[2] * b[2]>>
RatDiv(a, b) == IF b[1] < 0 THEN <<0 - a[1] * b[2], 0 - a[2] * b[1]>>
                ELSE <<a[1] * b[2], a[2] * b[1]>>
RatAdd(a, b) == <<a[1] * b[2] + b[1] * a[2], a[2] * b[2]>>

(***************************************************************************)
(* Outcomes of a tool: a returned payload, or an exception that escapes.   *)
(* weather_requests and rate_requests count the requests.get calls made.   *)
(***************************************************************************)
NoPayload == [error |-> "raised"]
Return(payload, w, r) ==
    [raised |-> FALSE, exc |-> "", payload |-> payload,
     weather_requests |-> w, rate_requests |-> r]
Raise(exc, w, r) ==
    [raised |-> TRUE, exc |-> exc, payload |-> NoPayload,
     weather_requests |-> w, rate_requests |-> r]
ErrorPayload(code) == [error |-> code]

(***************************************************************************)
(* Unit conversion.                                                        *)
(***************************************************************************)
ALIASES ==
    { <<<<"m","i">>, "mile">>, <<<<"m","i","l","e","s">>, "mile">>,
      <<<<"m","i","l","e">>, "mile">>,
      <<<<"k","m">>, "kilometer">>,
      <<<<"k","i","l","o","m","e","t","e","r","s">>, "kilometer">>,
      <<<<"k","i","l","o","m","e","t","e","r">>, "kilometer">>,
      <<<<"k","g">>, "kilogram">>,
      <<<<"k","i","l","o","g","r","a","m","s">>, "kilogram">>,
      <<<<"k","i","l","o","g","r","a","m">>, "kilogram">>,
      <<<<"l","b">>, "pound">>, <<<<"l","b","s">>, "pound">>,
      <<<<"p","o","u","n","d","s">>, "pound">>, <<<<"p","o","u","n","d">>, "pound">>,
      <<<<"c">>, "celsius">>, <<<<"°","c">>, "celsius">>,
      <<<<"c","e","l","s","i","u","s">>, "celsius">>,
      <<<<"f">>, "fahrenheit">>, <<<<"°","f">>, "fahrenheit">>,
      <<<<"f","a","h","r","e","n","h","e","i","t">>, "fahrenheit">> }

\* ALIASES.get(key, "")
AliasGet(key) ==
    IF \E p \in ALIASES : p[1] = key THEN (CHOOSE p \in ALIASES : p[1] = key)[2] ELSE ""

\* FACTORS: 1.60934 and 2.20462
FACTORS ==
    { <<<<"mile", "kilometer">>, <<160934, 100000>>>>,
      <<<<"kilogram", "pound">>, <<220462, 100000>>>> }
InFactors(pair) == \E p \in FACTORS : p[1] = pair
Factor(pair) == (CHOOSE p \in FACTORS : p[1] = pair)[2]

UnitsPayload(value, from, to, converted) ==
    [error |-> "", value |-> value, from_unit |-> from, to_unit |-> to,
     converted_value |-> converted]

\* Faulty variant: the reverse direction of a factor pair is forgotten.
convert_units_forward_only(value, from_unit, to_unit) ==
    LET f == ToNumber(value) IN
    IF ~f.ok THEN Return(ErrorPayload("invalid_value"), 0, 0)
    ELSE IF ~IsStr(OrEmpty(from_unit)) \/ ~IsStr(OrEmpty(to_unit))
    THEN Raise("AttributeError", 0, 0)
    ELSE
    LET value_float == Rat(f.val)
        from_normalized == AliasGet(lower(strip(OrEmpty(from_unit).s)))
        to_normalized == AliasGet(lower(strip(OrEmpty(to_unit).s)))
    IN  IF from_normalized = "" \/ to_normalized = ""
        THEN Return(ErrorPayload("unsupported"), 0, 0)
        ELSE IF from_normalized = to_normalized
        THEN Return(UnitsPayload(value_float, from_normalized, to_normalized, value_float), 0, 0)
        ELSE IF {from_normalized, to_normalized} = {"celsius", "fahrenheit"}
        THEN Return(UnitsPayload(value_float, from_normalized, to_normalized,
                 IF from_normalized = "celsius"
                 THEN RatAdd(RatDiv(RatMul(value_float, Rat(9)), Rat(5)), Rat(32))
                 ELSE RatDiv(RatMul(RatAdd(value_float, Rat(0 - 32)), Rat(5)), Rat(9))), 0, 0)
        ELSE IF InFactors(<<from_normalized, to_normalized>>)
        THEN Return(UnitsPayload(value_float, from_normalized, to_normalized,
                 RatMul(value_float, Factor(<<from_normalized, to_normalized>>))), 0, 0)
        ELSE Return(ErrorPayload("unsupported"), 0, 0)

convert_units(value, from_unit, to_unit) ==
    LET f == ToNumber(value) IN
    IF ~f.ok THEN Return(ErrorPayload("invalid_value"), 0, 0)
    ELSE IF ~IsStr(OrEmpty(from_unit)) \/ ~IsStr(OrEmpty(to_unit))
    THEN Raise("AttributeError", 0, 0)
    ELSE
    LET value_float == Rat(f.val)
        from_normalized == AliasGet(lower(strip(OrEmpty(from_unit).s)))
        to_normalized == AliasGet(lower(strip(OrEmpty(to_unit).s)))
    IN  IF from_normalized = "" \/ to_normalized = ""
        THEN Return(ErrorPayload("unsupported"), 0, 0)
        ELSE IF from_normalized = to_normalized
        THEN Return(UnitsPayload(value_float, from_normalized, to_normalized, value_float), 0, 0)
        ELSE IF {from_normalized, to_normalized} = {"celsius", "fahrenheit"}
        THEN Return(UnitsPayload(value_float, from_normalized, to_normalized,
                 IF from_normalized = "celsius"
                 THEN RatAdd(RatDiv(RatMul(value_float, Rat(9)), Rat(5)), Rat(32))
                 ELSE RatDiv(RatMul(RatAdd(value_float, Rat(0 - 32)), Rat(5)), Rat(9))), 0, 0)
        ELSE IF InFactors(<<from_normalized, to_normalized>>)
        THEN Return(UnitsPayload(value_float, from_normalized, to_normalized,
                 RatMul(value_float, Factor(<<from_normalized, to_normalized>>))), 0, 0)
        ELSE IF InFactors(<<to_normalized, from_normalized>>)
        THEN Return(UnitsPayload(value_float, from_normalized, to_normalized,
                 RatDiv(value_float, Factor(<<to_normalized, from_normalized>>))), 0, 0)
        ELSE Return(ErrorPayload("unsupported"), 0, 0)

(***************************************************************************)
(* Currency conversion.  A RateResponse is what the single requests.get    *)
(* of convert_currency can produce: a transport failure, or an HTTP        *)
(* response with a status and a body.  rate is the value stored under the  *)
(* target code in the body's rates mapping (PyNone when there is none).    *)
(***************************************************************************)
RateResponse(transport, status, body, rates, rate) ==
    [transport |-> transport, status |-> status, body |-> body,
     rates |-> rates, rate |-> rate, date |-> "2024-01-02", base |-> "from_code"]

CurrencyPayload(amount, from, to, rate, converted, date, base) ==
    [error |-> "", amount |-> amount, from |-> from, to |-> to, rate |-> rate,
     converted |-> converted, date |-> date, base |-> base]

\* Lines 189-209: the request and everything done with its response sit in
\* one try block whose handler is "except Exception".
RateLookup(amount_float, from_code, to_code, resp) ==
    IF resp.transport # "ok" THEN Return(ErrorPayload("api_error"), 0, 1)
    ELSE IF resp.status # 200 THEN Return(ErrorPayload("api_error"), 0, 1)
    ELSE IF resp.body # "object" THEN Return(ErrorPayload("api_error"), 0, 1)
    ELSE IF resp.rates = "array" THEN Return(ErrorPayload("api_error"), 0, 1)
    ELSE
    LET rate_value == IF resp.rates = "object" THEN resp.rate ELSE PyNone IN
    IF rate_value.t = "none" THEN Return(ErrorPayload("unsupported_currency"), 0, 1)
    ELSE IF ~ToNumber(rate_value).ok THEN Return(ErrorPayload("api_error"), 0, 1)
    ELSE Return(CurrencyPayload(amount_float, from_code, to_code,
                    Rat(ToNumber(rate_value).val),
                    RatMul(amount_float, Rat(ToNumber(rate_value).val)),
                    resp.date, resp.base), 0, 1)

\* Faulty variant: the codes are trimmed but not upper-cased.
convert_currency_case_sensitive(amount, from_currency, to_currency, resp) ==
    LET f == ToNumber(amount) IN
    IF ~f.ok THEN Return(ErrorPayload("invalid_amount"), 0, 0)
    ELSE IF ~IsStr(OrEmpty(from_currency)) \/ ~IsStr(OrEmpty(to_currency))
    THEN Raise("AttributeError", 0, 0)
    ELSE
    LET amount_float == Rat(f.val)
        from_code == strip(OrEmpty(from_currency).s)
        to_code == strip(OrEmpty(to_currency).s)
    IN  IF from_code = <<>> \/ to_code = <<>>
        THEN Return(ErrorPayload("unsupported_currency"), 0, 0)
        ELSE IF from_code = to_code
        THEN Return(CurrencyPayload(amount_float, from_code, to_code, Rat(1),
                        amount_float, "", ""), 0, 0)
        ELSE RateLookup(amount_float, from_code, to_code, resp)

convert_currency(amount, from_currency, to_currency, resp) ==
    LET f == ToNumber(amount) IN
    IF ~f.ok THEN Return(ErrorPayload("invalid_amount"), 0, 0)
    ELSE IF ~IsStr(OrEmpty(from_currency)) \/ ~IsStr(OrEmpty(to_currency))
    THEN Raise("AttributeError", 0, 0)
    ELSE
    LET amount_float == Rat(f.val)
        from_code == upper(strip(OrEmpty(from_currency).s))
        to_code == upper(strip(OrEmpty(to_currency).s))
    IN  IF from_code = <<>> \/ to_code = <<>>
        THEN Return(ErrorPayload("unsupported_currency"), 0, 0)
        ELSE IF from_code = to_code
        THEN Return(CurrencyPayload(amount_float, from_code, to_code, Rat(1),
                        amount_float, "", ""), 0, 0)
        ELSE RateLookup(amount_float, from_code, to_code, resp)

(***************************************************************************)
(* Trip planner.                                                           *)
(***************************************************************************)
General == <<"g","e","n","e","r","a","l">>

_INTEREST_BANK ==
    { <<General,
        <<"Orientation walk & iconic landmark", "Top-rated museum or cultural site",
          "Sunset viewpoint or waterfront stroll", "Local market + street snacks",
          "Signature district exploration">>>>,
      <<<<"a","r","t">>,
        <<"Major art museum/gallery", "Street art / contemporary scene",
          "Artist studio or design district">>>>,
      <<<<"h","i","s","t","o","r","y">>,
        <<"Old town & heritage sites", "Fortresses/ruins & guided history tour",
          "Archaeology or national museum">>>>,
      <<<<"f","o","o","d">>,
        <<"Market/tasting tour", "Local cooking class", "Regional specialty dinner">>>>,
      <<<<"h","i","k","i","n","g">>,
        <<"National park trail (half-day)", "Scenic ridge or lake loop",
          "Sunrise/sunset hike & viewpoints">>>>,
      <<<<"b","e","a","c","h">>,
        <<"Relax on popular beach", "Snorkel/boat excursion",
          "Beach sunset + seaside dinner">>>> }

BankKeys == {p[1] : p \in _INTEREST_BANK}
\* _INTEREST_BANK.get(theme, _INTEREST_BANK["general"])
BankGet(theme) ==
    IF theme \in BankKeys THEN (CHOOSE p \in _INTEREST_BANK : p[1] = theme)[2]
    ELSE (CHOOSE p \in _INTEREST_BANK : p[1] = General)[2]

\* What "for interest in interests" iterates over: the entries of a list,
\* the characters of a text.
Entries(interests) ==
    IF interests.t = "list" THEN interests.l
    ELSE [i \in 1..Len(interests.s) |-> PyStr(<<interests.s[i]>>)]

SanitizeEntry(interest) ==
    LET key == lower(strip(OrEmpty(interest).s))
    IN  IF key \in BankKeys THEN key ELSE General

\* ok is FALSE where the function raises (a truthy value that cannot be
\* iterated, or a truthy entry without .strip).
_sanitize_interests(interests) ==
    IF ~Truthy(interests) THEN [ok |-> TRUE, exc |-> "", val |-> <<General>>]
    ELSE IF interests.t \notin {"list", "str"} THEN [ok |-> FALSE, exc |-> "TypeError", val |-> <<>>]
    ELSE
    LET entries == Entries(interests) IN
    IF \E i \in 1..Len(entries) : ~IsStr(OrEmpty(entries[i]))
    THEN [ok |-> FALSE, exc |-> "AttributeError", val |-> <<>>]
    ELSE [ok |-> TRUE, exc |-> "",
          val |-> [i \in 1..Len(entries) |-> SanitizeEntry(entries[i])]]

Clamp(n) == IF n < 1 THEN 1 ELSE IF n > 30 THEN 30 ELSE n

\* Faulty variant: the activities are indexed from the zero-based day.
ItineraryDay_zero_based(day_index, normalized_interests) ==
    LET theme == normalized_interests[((day_index - 1) % Len(normalized_interests)) + 1]
        idea_list == BankGet(theme)
    IN  [day |-> day_index,
         theme |-> theme,
         morning |-> idea_list[(((day_index - 1) * 1) % Len(idea_list)) + 1],
         afternoon |-> idea_list[(((day_index - 1) * 2) % Len(idea_list)) + 1],
         evening |-> idea_list[(((day_index - 1) * 3) % Len(idea_list)) + 1]]

ItineraryDay(day_index, normalized_interests) ==
    LET theme == normalized_interests[((day_index - 1) % Len(normalized_interests)) + 1]
        idea_list == BankGet(theme)
    IN  [day |-> day_index,
         theme |-> theme,
         morning |-> idea_list[((day_index * 1) % Len(idea_list)) + 1],
         afternoon |-> idea_list[((day_index * 2) % Len(idea_list)) + 1],
         evening |-> idea_list[((day_index * 3) % Len(idea_list)) + 1]]

plan_trip(destination, duration_days, interests) ==
    IF ~Truthy(destination) \/ ~IsStr(destination)
    THEN Return(ErrorPayload("missing_destination"), 0, 0)
    ELSE IF ~ToNumber(duration_days).ok
    THEN Return(ErrorPayload("invalid_duration"), 0, 0)
    ELSE
    LET duration_int == Clamp(ToNumber(duration_days).val)
        sanitized == _sanitize_interests(interests)
    IN  IF ~sanitized.ok THEN Raise(sanitized.exc, 0, 0)
        ELSE Return([error |-> "",
                     destination |-> destination.s,
                     duration_days |-> duration_int,
                     interests |-> sanitized.val,
                     itinerary |-> [d \in 1..duration_int |-> ItineraryDay(d, sanitized.val)],
                     note |-> "Offline generator: swap with a real travel API if desired."],
                    0, 0)

(***************************************************************************)
(* Weather.  A WeatherResponse is what the single requests.get can         *)
(* produce; body, main and weather give the shape of the JSON received.    *)
(***************************************************************************)
WeatherResponse(transport, status, body, main, weather) ==
    [transport |-> transport, status |-> status, body |-> body,
     main |-> main, weather |-> weather, temp |-> 21, description |-> "clear sky"]

get_weather(city, resp) ==
    IF resp.transport # "ok" THEN Return(ErrorPayload("network_error"), 1, 0)
    ELSE IF resp.status # 200 THEN Return(ErrorPayload("Could not get weather"), 1, 0)
    ELSE IF resp.body = "malformed" THEN Raise("JSONDecodeError", 1, 0)
    ELSE IF resp.body # "object" THEN Raise("AttributeError", 1, 0)
    ELSE IF resp.main \notin {"absent", "object"} THEN Raise("AttributeError", 1, 0)
    ELSE IF resp.weather = "object" THEN Raise("KeyError", 1, 0)
    ELSE IF resp.weather = "list_of_texts" THEN Raise("AttributeError", 1, 0)
    ELSE Return([error |-> "",
                 city |-> city,
                 temperature_c |-> IF resp.main = "object" THEN PyInt(resp.temp) ELSE PyNone,
                 description |-> IF resp.weather = "list_of_objects"
                                 THEN resp.description ELSE "null"], 1, 0)

(***************************************************************************)
(* Dispatcher.  args is what json.loads gave: a dict (dict = TRUE, fields  *)
(* its entries) or some other JSON value, which has no .get.               *)
(***************************************************************************)
EmptyMap == [k \in {} |-> PyNone]
Dict(fields) == [dict |-> TRUE, fields |-> fields]
NotDict == [dict |-> FALSE, fields |-> EmptyMap]

\* args.get(key, default)
ArgsGet(args, key, default) ==
    IF key \in DOMAIN args.fields THEN args.fields[key] ELSE default

\* Faulty variant: the handler is looked up by name, and a name that is
\* not registered raises.
_call_tool_lookup(name, args, wresp, rresp) ==
    IF name = "get_weather"
    THEN IF ~args.dict THEN Raise("AttributeError", 0, 0)
         ELSE get_weather(ArgsGet(args, "city", PyStr(<<>>)), wresp)
    ELSE IF name = "convert_units"
    THEN IF ~args.dict THEN Raise("AttributeError", 0, 0)
         ELSE convert_units(ArgsGet(args, "value", PyInt(0)),
                            ArgsGet(args, "from_unit", PyStr(<<>>)),
                            ArgsGet(args, "to_unit", PyStr(<<>>)))
    ELSE IF name = "convert_currency"
    THEN IF ~args.dict THEN Raise("AttributeError", 0, 0)
         ELSE convert_currency(ArgsGet(args, "amount", PyInt(0)),
                               ArgsGet(args, "from_currency", PyStr(<<>>)),
                               ArgsGet(args, "to_currency", PyStr(<<>>)), rresp)
    ELSE IF name = "plan_trip"
    THEN IF ~args.dict THEN Raise("AttributeError", 0, 0)
         ELSE plan_trip(ArgsGet(args, "destination", PyStr(<<>>)),
                        ArgsGet(args, "duration_days", PyInt(0)),
                        ArgsGet(args, "interests", PyList(<<>>)))
    ELSE Raise("KeyError", 0, 0)

_call_tool(name, args, wresp, rresp) ==
    IF name = "get_weather"
    THEN IF ~args.dict THEN Raise("AttributeError", 0, 0)
         ELSE get_weather(ArgsGet(args, "city", PyStr(<<>>)), wresp)
    ELSE IF name = "convert_units"
    THEN IF ~args.dict THEN Raise("AttributeError", 0, 0)
         ELSE convert_units(ArgsGet(args, "value", PyInt(0)),
                            ArgsGet(args, "from_unit", PyStr(<<>>)),
                            ArgsGet(args, "to_unit", PyStr(<<>>)))
    ELSE IF name = "convert_currency"
    THEN IF ~args.dict THEN Raise("AttributeError", 0, 0)
         ELSE convert_currency(ArgsGet(args, "amount", PyInt(0)),
                               ArgsGet(args, "from_currency", PyStr(<<>>)),
                               ArgsGet(args, "to_currency", PyStr(<<>>)), rresp)
    ELSE IF name = "plan_trip"
    THEN IF ~args.dict THEN Raise("AttributeError", 0, 0)
         ELSE plan_trip(ArgsGet(args, "destination", PyStr(<<>>)),
                        ArgsGet(args, "duration_days", PyInt(0)),
                        ArgsGet(args, "interests", PyList(<<>>)))
    ELSE Return(ErrorPayload("unknown_tool"), 0, 0)

(***************************************************************************)
(* Inputs tried.                                                           *)
(***************************************************************************)
Absent == [t |-> "absent", n |-> 0, s |-> <<>>, l |-> <<>>]

\* The argument object holding the fields of rec that are not Absent.
MkArgs(rec) ==
    Dict([k \in {f \in DOMAIN rec : rec[f].t # "absent"} |-> rec[k]])

RECURSIVE Blanks(_, _)
Blanks(c, k) == IF k = 0 THEN <<>> ELSE <<c>> \o Blanks(c, k - 1)

\* A spelling with k blanks before it and k tabs after it.
Pad(s, k) == Blanks(" ", k) \o s \o Blanks("\t", k)

\* A spelling, its upper-case form, its capitalised form and its padded forms.
Variants(s) ==
    {s, upper(s), IF s = <<>> THEN s ELSE <<UpperChar(Head(s))>> \o Tail(s)}
        \cup {Pad(s, k) : k \in 1..MaxPad}

Numbers == (0 - MaxValue)..MaxValue \cup {100}

\* Values of the wrong type that a JSON argument can hold.
OddValues == {PyNone, PyInt(5), PyInt(0), PyBool(TRUE), PyList(<<PyInt(1)>>)}

NumberArgs ==
    {PyInt(n) : n \in Numbers}
        \cup {PyStr(<<"1","2">>), PyStr(<<"a","b","c">>), PyNone, PyList(<<>>), Absent}

UnitSpellings ==
    UNION {Variants(p[1]) : p \in ALIASES}
        \cup Variants(<<"l","u","m","e","n","s">>) \cup {<<>>, <<"m">>, <<"k","m","s">>}
UnitArgs == {PyStr(s) : s \in UnitSpellings} \cup OddValues \cup {Absent}

CurrencyCodes ==
    Variants(<<"u","s","d">>) \cup Variants(<<"e","u","r">>) \cup Variants(<<>>)
        \cup {<<"U","s","D">>, <<"1","2">>}
CurrencyArgs == {PyStr(s) : s \in CurrencyCodes} \cup OddValues \cup {Absent}

RateResponses ==
    { RateResponse("timeout", 0, "none", "absent", PyNone),
      RateResponse("ok", 404, "object", "absent", PyNone),
      RateResponse("ok", 200, "malformed", "absent", PyNone),
      RateResponse("ok", 200, "array", "absent", PyNone),
      RateResponse("ok", 200, "object", "absent", PyNone),
      RateResponse("ok", 200, "object", "null", PyNone),
      RateResponse("ok", 200, "object", "array", PyNone),
      RateResponse("ok", 200, "object", "object", PyNone),
      RateResponse("ok", 200, "object", "object", PyStr(<<"a","b","c">>)),
      RateResponse("ok", 200, "object", "object", PyInt(2)) }

WeatherResponses ==
    { WeatherResponse("timeout", 0, "none", "absent", "absent"),
      WeatherResponse("ok", 404, "object", "absent", "absent"),
      WeatherResponse("ok", 200, "malformed", "absent", "absent"),
      WeatherResponse("ok", 200, "array", "absent", "absent"),
      WeatherResponse("ok", 200, "object", "null", "list_of_objects"),
      WeatherResponse("ok", 200, "object", "absent", "null"),
      WeatherResponse("ok", 200, "object", "object", "empty_list"),
      WeatherResponse("ok", 200, "object", "object", "list_of_texts"),
      WeatherResponse("ok", 200, "object", "object", "object"),
      WeatherResponse("ok", 200, "object", "object", "list_of_objects") }

CityArgs ==
    {PyStr(<<"P","a","r","i","s">>), PyStr(<<>>), PyNone, PyInt(5), Absent}

DestinationArgs ==
    {PyStr(<<"B","a","l","i">>), PyStr(<<"X">>), PyStr(<<" ">>), PyStr(<<>>),
     PyNone, PyInt(5), Absent}

DurationArgs ==
    {PyInt(n) : n \in (0 - MaxOver)..3 \cup {7} \cup 29..(30 + MaxOver) \cup {45}}
        \cup {PyStr(<<"1","2">>), PyStr(<<" ","-","4"," ">>), PyStr(<<"a","b","c">>),
              PyBool(TRUE), PyNone, PyList(<<>>), Absent}

InterestEntries ==
    {PyStr(<<"f","o","o","d">>), PyStr(<<" ","F","o","o","d","\t">>),
     PyStr(<<"B","E","A","C","H">>), PyStr(<<"x","y","z">>), PyStr(<<>>),
     PyNone, PyInt(5)}

InterestLists == UNION {[1..k -> InterestEntries] : k \in 0..MaxInterests}

InterestArgs ==
    {PyList(l) : l \in InterestLists}
        \cup {PyStr(<<"a","r","t">>), PyInt(5), PyBool(TRUE), PyNone, Absent}

ToolNames == {"get_weather", "convert_units", "convert_currency", "plan_trip"}
UnknownNames == {"bogus", "", "GET_WEATHER", "plan_trip "}

ArgsFor(name) ==
    CASE name = "get_weather" -> {MkArgs([city |-> c]) : c \in CityArgs}
      [] name = "convert_units" ->
            {MkArgs([value |-> v, from_unit |-> a, to_unit |-> b]) :
                v \in NumberArgs, a \in UnitArgs, b \in UnitArgs}
      [] name = "convert_currency" ->
            {MkArgs([amount |-> v, from_currency |-> a, to_currency |-> b]) :
                v \in NumberArgs, a \in CurrencyArgs, b \in CurrencyArgs}
      [] name = "plan_trip" ->
            {MkArgs([destination |-> d, duration_days |-> n, interests |-> i]) :
                d \in DestinationArgs, n \in DurationArgs, i \in InterestArgs}
      [] OTHER ->
            {MkArgs([city |-> c, value |-> v]) : c \in CityArgs, v \in NumberArgs}

(***************************************************************************)
(* The dispatcher called on its own: one call of _call_tool per behaviour. *)
(* The conversation's variables stay idle.                                 *)
(***************************************************************************)
NoResult == [kind |-> "none", text |-> <<>>, message |-> ""]
NoResponse == [transport |-> "none", status |-> 0, body |-> "none"]
NoOutcome == Return(NoPayload, 0, 0)
AnyRate == RateResponse("timeout", 0, "none", "absent", PyNone)
AnyWeather == WeatherResponse("timeout", 0, "none", "absent", "absent")

ConvIdle ==
    /\ messages = <<>>
    /\ hops = 0
    /\ pc = "idle"
    /\ response = [function_call |-> FALSE]
    /\ requests = 0
    /\ dispatches = 0
    /\ result = NoResult
    /\ raised = ""

ToolInit ==
    /\ t_name \in ToolNames \cup UnknownNames
    /\ t_args \in ArgsFor(t_name) \cup {NotDict}
    /\ t_out = NoOutcome
    /\ t_pc = "call"
    /\ t_resp = NoResponse
    /\ ConvIdle

CallGetWeather ==
    /\ t_pc = "call"
    /\ t_name = "get_weather"
    /\ \E w \in WeatherResponses :
          /\ t_out' = _call_tool(t_name, t_args, w, AnyRate)
          /\ t_resp' = IF t_out'.weather_requests > 0 THEN w ELSE NoResponse
    /\ t_pc' = "done"
    /\ UNCHANGED <<t_name, t_args, conv_vars>>

CallConvertUnits ==
    /\ t_pc = "call"
    /\ t_name = "convert_units"
    /\ t_out' = _call_tool(t_name, t_args, AnyWeather, AnyRate)
    /\ t_pc' = "done"
    /\ UNCHANGED <<t_name, t_args, t_resp, conv_vars>>

CallConvertCurrency ==
    /\ t_pc = "call"
    /\ t_name = "convert_currency"
    /\ \E r \in RateResponses :
          /\ t_out' = _call_tool(t_name, t_args, AnyWeather, r)
          /\ t_resp' = IF t_out'.rate_requests > 0 THEN r ELSE NoResponse
    /\ t_pc' = "done"
    /\ UNCHANGED <<t_name, t_args, conv_vars>>

CallPlanTrip ==
    /\ t_pc = "call"
    /\ t_name = "plan_trip"
    /\ t_out' = _call_tool(t_name, t_args, AnyWeather, AnyRate)
    /\ t_pc' = "done"
    /\ UNCHANGED <<t_name, t_args, t_resp, conv_vars>>

CallUnknownTool ==
    /\ t_pc = "call"
    /\ t_name \notin ToolNames
    /\ t_out' = _call_tool(t_name, t_args, AnyWeather, AnyRate)
    /\ t_pc' = "done"
    /\ UNCHANGED <<t_name, t_args, t_resp, conv_vars>>

(***************************************************************************)
(* run_conversation.                                                       *)
(***************************************************************************)
max_tool_hops == 6
FALLBACK == "I made too many tool calls for this request. Please refine your question."

Text(t) == [error |-> "", text |-> t]
SeedMessages ==
    << [role |-> "system", name |-> "", content |-> Text("SYSTEM_PROMPT")],
       [role |-> "user", name |-> "", content |-> Text("user_input")] >>

\* The model's message: a requested function call (name and argument
\* string) or a text answer.  arguments.form is the shape of the argument
\* string: "none"/"empty" (falsy), "malformed" (not JSON), "object" (a JSON
\* object with the entries obj) or "array"/"null" (JSON, but no object).
FunctionCall(name, form, obj) ==
    [function_call |-> TRUE, name |-> name,
     arguments |-> [form |-> form, obj |-> obj], content |-> PyNone]
Answer(content) ==
    [function_call |-> FALSE, name |-> "",
     arguments |-> [form |-> "none", obj |-> EmptyMap], content |-> content]

\* json.loads(arguments or "{}")
JsonLoads(arguments) ==
    CASE arguments.form \in {"none", "empty"} -> [ok |-> TRUE, val |-> Dict(EmptyMap)]
      [] arguments.form = "malformed" -> [ok |-> FALSE, val |-> NotDict]
      [] arguments.form = "object" -> [ok |-> TRUE, val |-> Dict(arguments.obj)]
      [] OTHER -> [ok |-> TRUE, val |-> NotDict]

Bali == PyStr(<<"B","a","l","i">>)
Paris == PyStr(<<"P","a","r","i","s">>)
Food == PyStr(<<"f","o","o","d">>)

ModelMessages ==
    { Answer(PyStr(<<"o","k">>)), Answer(PyNone), Answer(PyStr(<<>>)),
      FunctionCall("plan_trip", "object",
          [destination |-> Bali, duration_days |-> PyInt(3), interests |-> PyList(<<Food>>)]),
      FunctionCall("plan_trip", "empty", EmptyMap),
      FunctionCall("plan_trip", "malformed", EmptyMap),
      FunctionCall("plan_trip", "object",
          [destination |-> Bali, duration_days |-> PyInt(3), interests |-> PyList(<<PyInt(5)>>)]),
      FunctionCall("convert_units", "object",
          [value |-> PyInt(100), from_unit |-> PyInt(5), to_unit |-> PyStr(<<"k","m">>)]),
      FunctionCall("convert_units", "array", EmptyMap),
      FunctionCall("convert_currency", "object",
          [amount |-> PyInt(10), from_currency |-> PyStr(<<"u","s","d">>),
           to_currency |-> PyStr(<<"E","U","R">>)]),
      FunctionCall("get_weather", "object", [city |-> Paris]),
      FunctionCall("bogus", "object", [city |-> Paris]),
      FunctionCall("bogus", "array", EmptyMap),
      FunctionCall("bogus", "malformed", EmptyMap) }

ConvRateResponses == {RateResponse("timeout", 0, "none", "absent", PyNone)}
ConvWeatherResponses ==
    { WeatherResponse("ok", 200, "object", "object", "list_of_objects"),
      WeatherResponse("ok", 200, "malformed", "absent", "absent") }

\* Lines 349-354: a conversation starts; the dispatcher's own variables stay idle.
ConvInit ==
    /\ messages = SeedMessages
    /\ hops = 0
    /\ pc = "request"
    /\ response = Answer(PyNone)
    /\ requests = 0
    /\ dispatches = 0
    /\ result = NoResult
    /\ raised = ""
    /\ t_name = ""
    /\ t_args = NotDict
    /\ t_out = NoOutcome
    /\ t_pc = "idle"
    /\ t_resp = NoResponse

\* Lines 355-359: the loop enters its next iteration and the model answers.
ModelRequest ==
    /\ pc = "request"
    /\ hops < max_tool_hops
    /\ hops' = hops + 1
    /\ requests' = requests + 1
    /\ \E m \in ModelMessages : response' = m
    /\ pc' = "handle"
    /\ UNCHANGED <<messages, dispatches, result, raised, tool_vars>>

\* Lines 356-358: the request to the model collaborator fails.
ModelFailure ==
    /\ pc = "request"
    /\ hops < max_tool_hops
    /\ hops' = hops + 1
    /\ requests' = requests + 1
    /\ raised' = "APIError"
    /\ pc' = "raised"
    /\ UNCHANGED <<messages, response, dispatches, result, tool_vars>>

\* Lines 361-367: the message carries a function call.
ToolHop ==
    /\ pc = "handle"
    /\ response.function_call
    /\ LET tool_name == response.name
           loaded == JsonLoads(response.arguments)
       IN  IF ~loaded.ok
           THEN /\ raised' = "JSONDecodeError"
                /\ pc' = "raised"
                /\ UNCHANGED <<messages, dispatches>>
           ELSE \E w \in ConvWeatherResponses, r \in ConvRateResponses :
                  LET tool_output == _call_tool(tool_name, loaded.val, w, r)
                  IN  /\ dispatches' = dispatches + 1
                      /\ IF tool_output.raised
                         THEN /\ raised' = tool_output.exc
                              /\ pc' = "raised"
                              /\ UNCHANGED messages
                         ELSE /\ messages' = Append(messages,
                                     [role |-> "function", name |-> tool_name,
                                      content |-> tool_output.payload])
                              /\ pc' = "request"
                              /\ UNCHANGED raised
    /\ UNCHANGED <<hops, response, requests, result, tool_vars>>

\* Faulty variant: the answer is logged and the loop goes on.
ReturnFinal_continues ==
    /\ pc = "handle"
    /\ ~response.function_call
    /\ messages' = Append(messages,
           [role |-> "assistant", name |-> "", content |-> Text("answer")])
    /\ pc' = "request"
    /\ UNCHANGED <<hops, response, requests, dispatches, result, raised, tool_vars>>

\* Line 370: no function call, the message's text is the answer.
ReturnFinal ==
    /\ pc = "handle"
    /\ ~response.function_call
    /\ result' = [kind |-> "answer", text |-> OrEmpty(response.content).s, message |-> ""]
    /\ pc' = "done"
    /\ UNCHANGED <<messages, hops, response, requests, dispatches, raised, tool_vars>>

\* Line 373: the loop ran out of iterations.
HopLimit ==
    /\ pc = "request"
    /\ hops = max_tool_hops
    /\ result' = [kind |-> "fallback", text |-> <<>>, message |-> FALLBACK]
    /\ pc' = "fallback"
    /\ UNCHANGED <<messages, hops, response, requests, dispatches, raised, tool_vars>>

\* A behaviour is one run of run_conversation or one call of _call_tool.
Init == ConvInit \/ ToolInit

Next ==
    \/ ModelRequest
    \/ ModelFailure
    \/ ToolHop
    \/ ReturnFinal
    \/ HopLimit
    \/ CallGetWeather
    \/ CallConvertUnits
    \/ CallConvertCurrency
    \/ CallPlanTrip
    \/ CallUnknownTool

Spec == Init /\ [][Next]_vars

(***************************************************************************)
(* Properties.                                                             *)
(***************************************************************************)
Terminated == pc \in {"done", "fallback", "raised"}

\* The run ended although every model request was answered with a tool call.
EndedOnToolCallsOnly == pc = "fallback" \/ (pc = "raised" /\ raised # "APIError")

LastMessage == messages[Len(messages)]

\* C1: a run in which the model answers every request with a tool call makes
\* exactly 6 model requests and 6 tool dispatches and then returns the
\* fallback text; no run makes a 7th request or a 7th dispatch.
C1_ToolCallsOnlyRunEndsAtHopCap ==
    /\ requests <= 6
    /\ dispatches <= 6
    /\ EndedOnToolCallsOnly =>
          /\ pc = "fallback"
          /\ requests = 6
          /\ dispatches = 6
          /\ result.message = FALLBACK

\* C2: whenever the next model request is about to be sent, the log is the
\* seed [system, user] followed by one (assistant tool-call, tool-result)
\* pair per tool hop made, the result tagged with the tool's name.
C2_LogHoldsCallResultPairs ==
    pc = "request" =>
        /\ Len(messages) = 2 + 2 * dispatches
        /\ SubSeq(messages, 1, 2) = SeedMessages
        /\ \A i \in 1..dispatches :
              /\ messages[2 * i + 1].role = "assistant"
              /\ messages[2 * i + 2].role = "function"
              /\ messages[2 * i + 2].name = messages[2 * i + 1].name

\* C3: a run ends with a model answer, with the fallback text or with a
\* failure of the model request; no tool call and no collaborator response
\* makes an exception of a tool leave _call_tool or run_conversation.
C3_NoToolExceptionEscapes ==
    /\ pc = "raised" => raised = "APIError"
    /\ Terminated =>
          \/ pc = "done" /\ result.kind = "answer" /\ raised = ""
          \/ pc = "fallback" /\ result.message = FALLBACK /\ raised = ""
          \/ pc = "raised" /\ raised = "APIError" /\ result.kind = "none"

C4_UnknownToolStep ==
    (/\ pc = "handle"
     /\ response.function_call
     /\ response.name \notin ToolNames
     /\ JsonLoads(response.arguments).ok)
        => /\ pc' = "request"
           /\ messages' = Append(messages,
                  [role |-> "function", name |-> response.name,
                   content |-> ErrorPayload("unknown_tool")])
           /\ hops' = hops
           /\ dispatches' = dispatches + 1
           /\ raised' = ""

\* C4: for a name that is none of the four tools _call_tool returns the
\* unknown_tool payload without raising, whatever the arguments; the
\* conversation appends it as a tool result under the requested name and
\* goes on to the next model request, the hop counting against the cap.
C4_UnknownToolContinues ==
    /\ [](t_pc = "done" /\ t_name \notin ToolNames =>
            /\ ~t_out.raised
            /\ t_out.payload = ErrorPayload("unknown_tool")
            /\ t_out.weather_requests = 0
            /\ t_out.rate_requests = 0)
    /\ [](pc = "request" => hops = dispatches /\ hops <= 6)
    /\ [][C4_UnknownToolStep]_vars

C4_Witness ==
    /\ pc = "request"
    /\ hops = 2
    /\ response.function_call
    /\ response.name = "bogus"
    /\ response.arguments.form = "object"
    /\ LastMessage.name = "bogus"
    /\ LastMessage.content.error = "unknown_tool"

C5_FinalStep ==
    (pc = "handle" /\ ~response.function_call)
        => /\ pc' = "done"
           /\ result' = [kind |-> "answer",
                         text |-> IF response.content.t = "str"
                                  THEN response.content.s ELSE <<>>,
                         message |-> ""]
           /\ UNCHANGED <<messages, requests, dispatches>>

C5_NothingAfterTheAnswer == pc # "done"

\* C5: the first model response without a tool call ends the conversation:
\* its text (empty when it has no content) is returned, and afterwards no
\* model request is sent, no tool is dispatched and the log does not grow,
\* after any number (0 to 5) of tool hops.
C5_AnswerEndsConversation ==
    /\ [](pc = "done" =>
            /\ result.kind = "answer"
            /\ dispatches \in 0..5
            /\ requests = dispatches + 1
            /\ Len(messages) = 2 + dispatches)
    /\ [][C5_FinalStep /\ C5_NothingAfterTheAnswer]_vars

C5_Witness ==
    /\ pc = "done"
    /\ dispatches = 5
    /\ requests = 6
    /\ response.content = PyNone
    /\ result.text = <<>>

(***************************************************************************)
(* The dispatcher's call, as the properties read it.                       *)
(***************************************************************************)
Called(name) == t_pc = "done" /\ t_name = name /\ t_args.dict
Given(keys) == keys \subseteq DOMAIN t_args.fields
Arg(key) == t_args.fields[key]

ExpectedFields(name) ==
    CASE name = "get_weather" -> {"city"}
      [] name = "convert_units" -> {"value", "from_unit", "to_unit"}
      [] name = "convert_currency" -> {"amount", "from_currency", "to_currency"}
      [] name = "plan_trip" -> {"destination", "duration_days", "interests"}

DefaultOf(key) ==
    CASE key \in {"value", "amount", "duration_days"} -> PyInt(0)
      [] key = "interests" -> PyList(<<>>)
      [] OTHER -> PyStr(<<>>)

ArgOrDefault(key) == IF key \in DOMAIN t_args.fields THEN Arg(key) ELSE DefaultOf(key)

\* C6: for each known tool and every argument mapping that lacks some of the
\* expected fields, the tool runs with the default in place of each absent
\* field and a result payload is returned without raising.
C6_AbsentFieldsDefaulted ==
    \A name \in ToolNames :
        (Called(name) /\ ~Given(ExpectedFields(name))) =>
            /\ ~t_out.raised
            /\ name = "convert_units" =>
                  t_out = convert_units(ArgOrDefault("value"), ArgOrDefault("from_unit"),
                                        ArgOrDefault("to_unit"))
            /\ name = "convert_currency" =>
                  t_out = convert_currency(ArgOrDefault("amount"),
                              ArgOrDefault("from_currency"), ArgOrDefault("to_currency"),
                              IF t_out.rate_requests > 0 THEN t_resp ELSE AnyRate)
            /\ name = "plan_trip" =>
                  t_out = plan_trip(ArgOrDefault("destination"),
                              ArgOrDefault("duration_days"), ArgOrDefault("interests"))

Numeric(v) == v.t \in {"int", "bool"} \/ (v.t = "str" /\ IsNumeral(v.s))
NumberOf(v) == IF v.t = "str" THEN NumeralValue(v.s) ELSE v.n

\* A currency code, trimmed and upper-cased.
NormalCode(v) == upper(strip(v.s))

CurrencyCall ==
    /\ Called("convert_currency")
    /\ Given({"amount", "from_currency", "to_currency"})
    /\ IsStr(Arg("from_currency"))
    /\ IsStr(Arg("to_currency"))

IdentityResult ==
    /\ ~t_out.raised
    /\ t_out.payload.error = ""
    /\ t_out.payload.rate = <<1, 1>>
    /\ t_out.payload.converted = <<NumberOf(Arg("amount")), 1>>
    /\ t_out.payload.from = NormalCode(Arg("from_currency"))
    /\ t_out.rate_requests = 0

\* C7 as stated: with a numeric amount, any two codes that are identical
\* after trimming and upper-casing, whatever their content, give rate 1.0
\* and converted = amount without a rate lookup.
C7_IdenticalCodesAnyContent ==
    (/\ CurrencyCall
     /\ Numeric(Arg("amount"))
     /\ NormalCode(Arg("from_currency")) = NormalCode(Arg("to_currency")))
        => IdentityResult

\* C7, amended: with a numeric amount, two codes that are identical and not
\* empty after trimming and upper-casing give rate 1.0 and converted =
\* amount without a rate lookup; when a code is empty after trimming the
\* result is unsupported_currency, also without a rate lookup.
C7_IdenticalNonEmptyCodes ==
    (/\ CurrencyCall
     /\ Numeric(Arg("amount"))
     /\ NormalCode(Arg("from_currency")) = NormalCode(Arg("to_currency")))
        => IF NormalCode(Arg("from_currency")) # <<>>
           THEN IdentityResult
           ELSE /\ ~t_out.raised
                /\ t_out.payload.error = "unsupported_currency"
                /\ t_out.rate_requests = 0

C7_Witness ==
    /\ CurrencyCall
    /\ Arg("amount") = PyInt(100)
    /\ Arg("from_currency") = PyStr(<<" ","u","s","d","\t">>)
    /\ Arg("to_currency") = PyStr(<<"U","S","D">>)
    /\ t_out.payload.error = ""
    /\ t_out.payload.converted = <<100, 1>>

\* C8: with two different normalized codes the error code follows the one
\* rate lookup: transport failure -> network_error, non-success status ->
\* api_error, success without the target's rate -> unsupported_currency; a
\* non-numeric amount -> invalid_amount before any lookup; at most one
\* lookup per call.
C8_ErrorFollowsLookupOutcome ==
    CurrencyCall =>
        /\ ~t_out.raised
        /\ t_out.rate_requests <= 1
        /\ ~Numeric(Arg("amount")) =>
              t_out.payload.error = "invalid_amount" /\ t_out.rate_requests = 0
        /\ (/\ Numeric(Arg("amount"))
            /\ NormalCode(Arg("from_currency")) # NormalCode(Arg("to_currency"))
            /\ t_out.rate_requests = 1) =>
              /\ t_resp.transport = "timeout" => t_out.payload.error = "network_error"
              /\ (t_resp.transport = "ok" /\ t_resp.status # 200) =>
                    t_out.payload.error = "api_error"
              /\ (/\ t_resp.transport = "ok"
                  /\ t_resp.status = 200
                  /\ t_resp.body = "object"
                  /\ (t_resp.rates \in {"absent", "null"} \/
                        (t_resp.rates = "object" /\ t_resp.rate = PyNone))) =>
                    t_out.payload.error = "unsupported_currency"

TripCall ==
    /\ Called("plan_trip")
    /\ Given({"destination", "duration_days", "interests"})

TextList(v) == v.t = "list" /\ \A k \in 1..Len(v.l) : IsStr(v.l[k])

NonEmptyText(v) == IsStr(v) /\ v.s # <<>>

ExpectedInterests(v) ==
    IF v.l = <<>> THEN <<General>>
    ELSE [k \in 1..Len(v.l) |->
            IF lower(strip(v.l[k].s)) \in BankKeys THEN lower(strip(v.l[k].s))
            ELSE General]

PlannedAsStated ==
    LET n == NumberOf(Arg("duration_days"))
        p == t_out.payload
    IN  /\ ~t_out.raised
        /\ p.error = ""
        /\ p.duration_days = (IF n < 1 THEN 1 ELSE IF n > 30 THEN 30 ELSE n)
        /\ p.interests = ExpectedInterests(Arg("interests"))
        /\ Len(p.itinerary) = p.duration_days
        /\ \A d \in 1..Len(p.itinerary) :
              LET theme == p.interests[((d - 1) % Len(p.interests)) + 1]
                  list == (CHOOSE b \in _INTEREST_BANK : b[1] = theme)[2]
              IN  /\ p.itinerary[d].day = d
                  /\ p.itinerary[d].theme = theme
                  /\ p.itinerary[d].morning = list[(d % Len(list)) + 1]
                  /\ p.itinerary[d].afternoon = list[((2 * d) % Len(list)) + 1]
                  /\ p.itinerary[d].evening = list[((3 * d) % Len(list)) + 1]

\* C9: for a non-empty text destination, a duration coercible to an integer
\* n and a list of text interests, duration_days is n clamped into [1,30],
\* interests is ["general"] for an empty list and otherwise the list with
\* each entry trimmed, lower-cased and replaced by "general" when it is no
\* Interest Bank key, the itinerary has the days 1..duration_days in order,
\* day d has the theme interests[(d-1) mod len] and the activities at
\* indexes d, 2d and 3d mod L of the theme's list; an empty destination
\* gives missing_destination, a non-coercible duration invalid_duration.
C9_PlanTripResult ==
    TripCall =>
        /\ Arg("destination") = PyStr(<<>>) =>
              ~t_out.raised /\ t_out.payload.error = "missing_destination"
        /\ (NonEmptyText(Arg("destination")) /\ ~Numeric(Arg("duration_days"))) =>
              ~t_out.raised /\ t_out.payload.error = "invalid_duration"
        /\ (/\ NonEmptyText(Arg("destination"))
            /\ Numeric(Arg("duration_days"))
            /\ TextList(Arg("interests"))) => PlannedAsStated

C9_Witness ==
    /\ TripCall
    /\ Arg("destination") = PyStr(<<"B","a","l","i">>)
    /\ Arg("duration_days") = PyInt(45)
    /\ Arg("interests") = PyList(<<PyStr(<<" ","F","o","o","d","\t">>), PyStr(<<"x","y","z">>)>>)
    /\ t_out.payload.duration_days = 30
    /\ t_out.payload.interests = <<<<"f","o","o","d">>, General>>
    /\ t_out.payload.itinerary[30].theme = General

UnitsCall ==
    /\ Called("convert_units")
    /\ Given({"value", "from_unit", "to_unit"})
    /\ Numeric(Arg("value"))
    /\ IsStr(Arg("from_unit"))
    /\ IsStr(Arg("to_unit"))

Units == {"mile", "kilometer", "kilogram", "pound", "celsius", "fahrenheit"}

\* A unit spelling, trimmed, lower-cased and looked up in the alias table.
NormalUnit(v) == AliasGet(lower(strip(v.s)))

SupportedPair(a, b) ==
    /\ a \in Units
    /\ b \in Units
    /\ \/ a = b
       \/ {a, b} = {"celsius", "fahrenheit"}
       \/ {a, b} = {"mile", "kilometer"}
       \/ {a, b} = {"kilogram", "pound"}

\* n times c / d, and n divided by c / d, as the model writes floats.
Times(n, c, d) == <<n * c, d>>
Over(n, c, d) == <<n * d, c>>

\* C10: with a numeric value, a pair of unit spellings is supported exactly
\* when both normalize into the six units and the normalized pair is equal,
\* {celsius, fahrenheit}, {mile, kilometer} or {kilogram, pound}; any other
\* pair is unsupported in both orders; equal units return the value itself;
\* the reverse of a factor pair divides by the factor the forward direction
\* multiplies by.
C10_UnitPairs ==
    UnitsCall =>
        LET a == NormalUnit(Arg("from_unit"))
            b == NormalUnit(Arg("to_unit"))
            n == NumberOf(Arg("value"))
            v == <<n, 1>>
            p == t_out.payload
            back == convert_units(Arg("value"), Arg("to_unit"), Arg("from_unit"))
        IN  /\ ~t_out.raised
            /\ (p.error = "") <=> SupportedPair(a, b)
            /\ ~SupportedPair(a, b) =>
                  p.error = "unsupported" /\ back.payload.error = "unsupported"
            /\ (SupportedPair(a, b) /\ a = b) => p.converted_value = v
            /\ (a = "mile" /\ b = "kilometer") =>
                  p.converted_value = Times(n, 160934, 100000)
            /\ (a = "kilometer" /\ b = "mile") =>
                  p.converted_value = Over(n, 160934, 100000)
            /\ (a = "kilogram" /\ b = "pound") =>
                  p.converted_value = Times(n, 220462, 100000)
            /\ (a = "pound" /\ b = "kilogram") =>
                  p.converted_value = Over(n, 220462, 100000)

C10_Witness ==
    /\ UnitsCall
    /\ Arg("value") = PyInt(100)
    /\ Arg("from_unit") = PyStr(<<"K","M">>)
    /\ Arg("to_unit") = PyStr(<<" ","m","i","l","e","s","\t">>)
    /\ t_out.payload.error = ""
    /\ t_out.payload.converted_value = <<10000000, 160934>>

====
